---- MODULE Spec2Model ----
(***************************************************************************)
(* Model of the elicitation weather server (mcp_open_meteo_elicit):        *)
(*   api_client.py         search_locations, get_weather_data              *)
(*   location_resolver.py  resolve_location                                *)
(*   tools.py              the five tool handlers                          *)
(* One tool invocation is followed from the call to its return or raise.   *)
(* The geocoding source, the weather source and the elicitation peer are   *)
(* the environment: their answers are chosen nondeterministically.         *)
(* Python lists are 0-based, sequences here are 1-based: list[i] is        *)
(* written seq[i + 1].                                                     *)
(***************************************************************************)
EXTENDS Integers, Sequences, FiniteSets, TLC

(***************************************************************************)
(* Bounds of the model                                                     *)
(***************************************************************************)
\* largest number of records the geocoding source answers with
MaxAvail == 7
\* hourly series are up to ALERT_SCAN_HOURS + MaxExtraHours samples long
MaxExtraHours == 2
\* daily series are up to MAX_FORECAST_DAYS + MaxExtraDays entries long
MaxExtraDays == 1

(***************************************************************************)
(* Program constants (config.py values as documented at their uses)        *)
(***************************************************************************)
MAX_LOCATION_ELICITATION_OPTIONS == 5
MAX_LOCATION_SEARCH_RESULTS == 10
MAX_FORECAST_DAYS == 16
MAX_FORECAST_HOURS == 168
HIGH_WIND_THRESHOLD_KMH == 50
ALERT_SCAN_HOURS == 24
RESOLVER_SEARCH_LIMIT == 10
SEARCH_TOOL_MAX_LIMIT == 10
MIN_LOCATION_NAME_LENGTH == 2
ALERTS_FORECAST_DAYS == 2
DEFAULT_FORECAST_DAYS == 7
SEVERE_WEATHER_CODES == {95, 96, 99}
FREEZING_RAIN_CODES == {66, 67}
SNOW_CODES == {71, 73, 75, 77, 85, 86}

(***************************************************************************)
(* Python built-ins                                                        *)
(***************************************************************************)
Min(a, b) == IF a <= b THEN a ELSE b
Max(a, b) == IF a >= b THEN a ELSE b

\* list[:n] for n >= 0
Take(s, n) == SubSeq(s, 1, Min(n, Len(s)))

\* the value of an absent optional (None, or a key that is not in a dict)
Missing == "<missing>"

Whitespace == {" "}

RECURSIVE LStrip(_)
LStrip(s) ==
    IF s # <<>> /\ Head(s) \in Whitespace THEN LStrip(Tail(s)) ELSE s

RECURSIVE RStrip(_)
RStrip(s) ==
    IF s # <<>> /\ s[Len(s)] \in Whitespace
    THEN RStrip(SubSeq(s, 1, Len(s) - 1))
    ELSE s

\* str.strip()
Strip(s) == RStrip(LStrip(s))

(***************************************************************************)
(* Exceptions and call outcomes                                            *)
(***************************************************************************)
NoError == [exc |-> "none", msg |-> "", arg |-> <<>>]

ValueError(msg, arg) == [exc |-> "ValueError", msg |-> msg, arg |-> arg]

Raise(e) == [kind |-> "raise", error |-> e]

Return(v) == [kind |-> "return", value |-> v]

(***************************************************************************)
(* The geocoding source (environment)                                      *)
(***************************************************************************)
\* the k-th record the geocoding source knows for a query
Candidate(k, hasCountry) ==
    [id        |-> 100 + k,
     name      |-> 200 + k,
     latitude  |-> 10 + k,
     longitude |-> 0 - (10 + k),
     country   |-> IF hasCountry THEN "US" ELSE Missing]

\* a "results" list of n records, best match first in either ranking, whose
\* m-th record (if m > 0) has no "country" key
GeoResults(n, rev, m) ==
    [i \in 1..n |-> Candidate(IF rev THEN n + 1 - i ELSE i, i # m)]

GeoResultLists ==
    {GeoResults(n, rev, m) : n \in 0..MaxAvail, rev \in BOOLEAN, m \in 0..MaxAvail}

\* what client.get() does: it returns a response or raises an httpx exception
TransportFaults == {"TimeoutException", "ConnectError", "RequestError"}

ErrorStatuses == {400, 500}

HttpFault(k) == [kind |-> k, status |-> 0, json_ok |-> FALSE, body |-> <<>>]

HttpResponse(status, json_ok, body) ==
    [kind |-> "response", status |-> status, json_ok |-> json_ok, body |-> body]

\* a geocoding body: {"results": [...]} or a body without the "results" key
GeoBodies ==
    {[has_results |-> TRUE, results |-> r] : r \in GeoResultLists}
        \cup {[has_results |-> FALSE, results |-> <<>>]}

GeoResponses ==
    {HttpFault(k) : k \in TransportFaults}
        \cup {HttpResponse(s, j, <<>>) : s \in ErrorStatuses, j \in BOOLEAN}
        \cup {HttpResponse(200, FALSE, <<>>)}
        \cup {HttpResponse(200, TRUE, b) : b \in GeoBodies}

(***************************************************************************)
(* api_client.py                                                           *)
(***************************************************************************)
\* the request search_locations builds (params, api_client.py 21-25)
search_params(location_name, limit) ==
    [name   |-> location_name,
     count  |-> Min(limit, MAX_LOCATION_SEARCH_RESULTS),
     format |-> "json"]

\* a variant that answers a timeout with an empty list
search_locations_swallow_timeout(resp) ==
    IF resp.kind = "TimeoutException"
    THEN Return(<<>>)
    ELSE IF resp.kind = "ConnectError"
    THEN Raise(ValueError("Failed to connect to geocoding service", <<>>))
    ELSE IF resp.kind = "RequestError"
    THEN Raise(ValueError("Network error", <<>>))
    ELSE IF resp.status = 200
    THEN IF ~resp.json_ok
         THEN Raise([exc |-> "JSONDecodeError", msg |-> "", arg |-> <<>>])
         ELSE Return(IF resp.body.has_results THEN resp.body.results ELSE <<>>)
    ELSE Raise(ValueError("Geocoding API error", <<>>))

\* search_locations from the answer of its client.get() on
search_locations(resp) ==
    IF resp.kind = "TimeoutException"
    THEN Raise(ValueError("Request timeout - the geocoding service may be temporarily unavailable", <<>>))
    ELSE IF resp.kind = "ConnectError"
    THEN Raise(ValueError("Failed to connect to geocoding service", <<>>))
    ELSE IF resp.kind = "RequestError"
    THEN Raise(ValueError("Network error", <<>>))
    ELSE IF resp.status = 200
    THEN IF ~resp.json_ok
         THEN Raise([exc |-> "JSONDecodeError", msg |-> "", arg |-> <<>>])
         ELSE Return(IF resp.body.has_results THEN resp.body.results ELSE <<>>)
    ELSE Raise(ValueError("Geocoding API error", <<>>))

(***************************************************************************)
(* location_resolver.py                                                    *)
(***************************************************************************)
\* LocationInfo(id=loc["id"], ..., country=loc.get("country", ""), ...)
LocationInfo(loc) ==
    [id        |-> loc.id,
     name      |-> loc.name,
     latitude  |-> loc.latitude,
     longitude |-> loc.longitude,
     country   |-> IF loc.country = Missing THEN "" ELSE loc.country]

NoLocation ==
    [id |-> 0, name |-> 0, latitude |-> 0, longitude |-> 0, country |-> Missing]

\* a variant that does not truncate
DisplayedLocations_untruncated(locs) == locs

\* the candidates resolve_location puts in the message
DisplayedLocations(locs) == Take(locs, MAX_LOCATION_ELICITATION_OPTIONS)

\* option_text = f"{i+1}. {loc['name']}{admin_str}, {loc['country']}{pop_str}"
OptionText(i, loc) ==
    [number |-> i + 1, name |-> loc.name, country |-> loc.country]

\* the message of ctx.elicit
ElicitMessage(location_name, locs) ==
    [query   |-> location_name,
     options |-> [i \in 1..Len(DisplayedLocations(locs)) |->
                     OptionText(i - 1, DisplayedLocations(locs)[i])]]

NoMessage == [query |-> <<>>, options |-> <<>>]

Elicit(message) == [kind |-> "elicit", message |-> message]

\* a variant that leaves the query out of the message
no_locations_error_anonymous(location_name) ==
    ValueError("No locations found", <<>>)

\* raise ValueError(f"No locations found for '{location_name}'. ...")
no_locations_error(location_name) ==
    ValueError("No locations found", location_name)

\* a variant without the single-result shortcut: one candidate is offered for
\* selection like several
resolve_location_search_always_elicit(location_name, found_) ==
    IF found_.kind = "raise"
    THEN Raise(found_.error)
    ELSE IF found_.value = <<>>
    THEN Raise(no_locations_error(location_name))
    ELSE IF \E i \in 1..Len(DisplayedLocations(found_.value)) :
               DisplayedLocations(found_.value)[i].country = Missing
    THEN Raise([exc |-> "KeyError", msg |-> "country", arg |-> <<>>])
    ELSE Elicit(ElicitMessage(location_name, found_.value))

\* resolve_location from the return of search_locations to its first
\* suspension (ctx.elicit), return or raise
resolve_location_search(location_name, found_) ==
    IF found_.kind = "raise"
    THEN Raise(found_.error)
    ELSE IF found_.value = <<>>
    THEN Raise(no_locations_error(location_name))
    ELSE IF Len(found_.value) = 1
    THEN Return(LocationInfo(found_.value[1]))
    ELSE IF \E i \in 1..Len(DisplayedLocations(found_.value)) :
               DisplayedLocations(found_.value)[i].country = Missing
    THEN Raise([exc |-> "KeyError", msg |-> "country", arg |-> <<>>])
    ELSE Elicit(ElicitMessage(location_name, found_.value))

\* the answers of the elicitation peer
ElicitAccept(k) == [action |-> "accept", has_data |-> TRUE, selected_location_id |-> k]

ElicitNoData(a) == [action |-> a, has_data |-> FALSE, selected_location_id |-> 0]

NoElicitResult == [action |-> "none", has_data |-> FALSE, selected_location_id |-> 0]

ElicitResults ==
    {ElicitAccept(k) : k \in (0 - 1)..(MaxAvail + 1)}
        \cup {ElicitNoData(a) : a \in {"accept", "decline", "cancel"}}

\* locations[i] of Python for i >= -len(locations): a negative index counts
\* from the end
PyIndex(locs, i) == IF i < 0 THEN locs[Len(locs) + i + 1] ELSE locs[i + 1]

\* a variant that checks the selection against the whole search result
resolve_location_choice_full_range(locs, res) ==
    IF res.action # "accept" \/ ~res.has_data
    THEN Raise(ValueError("Location selection was cancelled or invalid.", <<>>))
    ELSE IF res.selected_location_id - 1 < 0
               \/ res.selected_location_id - 1 >= Len(locs)
    THEN Raise(ValueError("Invalid location selection. Please choose a number from the list.", <<>>))
    ELSE Return(LocationInfo(PyIndex(locs, res.selected_location_id - 1)))

\* a variant that checks only the upper end of the range
resolve_location_choice_no_lower_bound(locs, res) ==
    IF res.action # "accept" \/ ~res.has_data
    THEN Raise(ValueError("Location selection was cancelled or invalid.", <<>>))
    ELSE IF res.selected_location_id - 1 >= Len(DisplayedLocations(locs))
               \/ res.selected_location_id - 1 < 0 - Len(locs)
    THEN Raise(ValueError("Invalid location selection. Please choose a number from the list.", <<>>))
    ELSE Return(LocationInfo(PyIndex(locs, res.selected_location_id - 1)))

\* resolve_location from the answer of ctx.elicit on
resolve_location_choice(locs, res) ==
    IF res.action # "accept" \/ ~res.has_data
    THEN Raise(ValueError("Location selection was cancelled or invalid.", <<>>))
    ELSE IF res.selected_location_id - 1 < 0
               \/ res.selected_location_id - 1 >= Len(DisplayedLocations(locs))
    THEN Raise(ValueError("Invalid location selection. Please choose a number from the list.", <<>>))
    ELSE Return(LocationInfo(PyIndex(locs, res.selected_location_id - 1)))

(***************************************************************************)
(* The weather source (environment)                                        *)
(***************************************************************************)
CurrentCodes == {0, 66, 71, 95, 99}

WindSpeeds == {0, HIGH_WIND_THRESHOLD_KMH, HIGH_WIND_THRESHOLD_KMH + 1}

\* the "current" group
CurrentBlock(code, wind) ==
    [time |-> "now", weather_code |-> code, wind_speed_10m |-> wind]

NoCurrent == [time |-> Missing, weather_code |-> 0, wind_speed_10m |-> 0]

\* an hourly series of n samples (the parallel arrays "time", "weather_code"
\* as one sequence of samples) with code c at the hours in marked, 0 elsewhere
HourlySeries(n, marked, c) ==
    [i \in 1..n |->
        [time |-> ToString(i - 1), weather_code |-> IF i \in marked THEN c ELSE 0]]

HourlyLengths ==
    {0, 1} \cup (ALERT_SCAN_HOURS - 1)..(ALERT_SCAN_HOURS + MaxExtraHours)

StormHours == {2, ALERT_SCAN_HOURS, ALERT_SCAN_HOURS + 1}

\* a series longer than any hour count a handler keeps
LongHourlyLength == MAX_FORECAST_HOURS + MaxExtraHours

\* the code at the marked hours: a thunderstorm code or a freezing rain code
MarkCodes == {95, 66}

\* a daily series of n entries
DailySeries(n) ==
    [i \in 1..n |-> [time |-> ToString(i - 1), weather_code |-> IF i = 2 THEN 95 ELSE 0]]

DailyLengths == 0..(MAX_FORECAST_DAYS + MaxExtraDays)

\* the bodies the weather source may answer a request with: the groups the
\* request names, each of any length
WeatherBody(params, code, w, n, st, c, d) ==
    [groups  |-> (IF params.current THEN {"current"} ELSE {})
                     \cup (IF params.hourly THEN {"hourly"} ELSE {})
                     \cup (IF params.daily THEN {"daily"} ELSE {}),
     current |-> IF params.current THEN CurrentBlock(code, w) ELSE NoCurrent,
     hourly  |-> IF params.hourly THEN HourlySeries(n, st, c) ELSE <<>>,
     daily   |-> IF params.daily THEN DailySeries(d) ELSE <<>>]

\* a JSON body that has none of the groups (the keys "current", "hourly",
\* "daily" are absent)
BodyWithoutGroups ==
    [groups |-> {}, current |-> NoCurrent, hourly |-> <<>>, daily |-> <<>>]

\* the request get_weather_data builds (params, api_client.py 85-102)
weather_params(latitude, longitude, current, hourly, daily, forecast_days) ==
    [latitude      |-> latitude,
     longitude     |-> longitude,
     forecast_days |-> forecast_days,
     current       |-> current,
     hourly        |-> hourly,
     daily         |-> daily]

NoParams ==
    [latitude |-> 0, longitude |-> 0, forecast_days |-> 0,
     current |-> FALSE, hourly |-> FALSE, daily |-> FALSE]

\* get_weather_data from the answer of its client.get() on
get_weather_data(resp) ==
    IF resp.kind = "TimeoutException"
    THEN Raise(ValueError("Request timeout - the weather service may be temporarily unavailable", <<>>))
    ELSE IF resp.kind = "ConnectError"
    THEN Raise(ValueError("Failed to connect to weather service", <<>>))
    ELSE IF resp.kind = "RequestError"
    THEN Raise(ValueError("Network error", <<>>))
    ELSE IF resp.status = 200
    THEN IF ~resp.json_ok
         THEN Raise([exc |-> "JSONDecodeError", msg |-> "", arg |-> <<>>])
         ELSE Return(resp.body)
    ELSE Raise(ValueError("Weather API error", <<>>))

(***************************************************************************)
(* tools.py                                                                *)
(***************************************************************************)
\* a variant that measures the text as given
location_name_too_short_unstripped(location_name) ==
    Len(location_name) < MIN_LOCATION_NAME_LENGTH

\* search_locations_tool: if len(location_name.strip()) < 2
location_name_too_short(location_name) ==
    Len(Strip(location_name)) < MIN_LOCATION_NAME_LENGTH

\* search_locations_tool: limit = max(1, min(limit, 10))
clamp_limit(limit) == Max(1, Min(limit, SEARCH_TOOL_MAX_LIMIT))

\* a variant without the lower end of the clamp
clamp_forecast_days_no_floor(forecast_days) == Min(forecast_days, MAX_FORECAST_DAYS)

\* get_weather_forecast: forecast_days = max(1, min(forecast_days, MAX_FORECAST_DAYS))
clamp_forecast_days(forecast_days) == Max(1, Min(forecast_days, MAX_FORECAST_DAYS))

\* get_hourly_forecast: forecast_hours = max(1, min(forecast_hours, MAX_FORECAST_HOURS))
\* a variant without the upper limit
clamp_forecast_hours_no_ceiling(forecast_hours) == Max(1, forecast_hours)

clamp_forecast_hours(forecast_hours) == Max(1, Min(forecast_hours, MAX_FORECAST_HOURS))

\* the request each weather handler makes for a resolved location
tool_weather_params(t, location, param) ==
    IF t = "get_current_weather"
    THEN weather_params(location.latitude, location.longitude,
                        TRUE, FALSE, FALSE, DEFAULT_FORECAST_DAYS)
    ELSE IF t = "get_weather_forecast"
    THEN weather_params(location.latitude, location.longitude,
                        FALSE, FALSE, TRUE, clamp_forecast_days(param))
    ELSE IF t = "get_hourly_forecast"
    THEN weather_params(location.latitude, location.longitude,
                        FALSE, TRUE, FALSE, DEFAULT_FORECAST_DAYS)
    ELSE weather_params(location.latitude, location.longitude,
                        TRUE, TRUE, FALSE, ALERTS_FORECAST_DAYS)

\* search_locations_tool: result.append(LocationInfo(...)) for each record
shape_locations(locations) ==
    [i \in 1..Len(locations) |-> LocationInfo(locations[i])]

\* get_current_weather: CurrentWeather(...)
shape_current(location, weather_data) ==
    [location     |-> location,
     weather_code |-> weather_data.current.weather_code,
     wind_speed   |-> weather_data.current.wind_speed_10m,
     timestamp    |-> weather_data.current.time]

\* get_weather_forecast: one DailyForecast per entry of daily["time"]
shape_daily(weather_data) ==
    [i \in 1..Len(weather_data.daily) |->
        [date         |-> weather_data.daily[i].time,
         weather_code |-> weather_data.daily[i].weather_code]]

\* get_hourly_forecast: actual_hours = min(forecast_hours, len(hourly["time"]))
actual_hours(forecast_hours, weather_data) ==
    Min(clamp_forecast_hours(forecast_hours), Len(weather_data.hourly))

\* get_hourly_forecast: one HourlyWeatherPoint per i in range(actual_hours)
shape_hourly(forecast_hours, weather_data) ==
    [i \in 1..actual_hours(forecast_hours, weather_data) |->
        [time         |-> weather_data.hourly[i].time,
         weather_code |-> weather_data.hourly[i].weather_code]]

Alert(type, severity, title, time) ==
    [type |-> type, severity |-> severity, title |-> title, time |-> time]

\* get_weather_alerts: the if/elif/elif on current["weather_code"]
current_code_alerts(current_weather_code) ==
    IF current_weather_code \in SEVERE_WEATHER_CODES
    THEN <<Alert("severe_weather", "high", "Thunderstorm Warning", "current")>>
    ELSE IF current_weather_code \in FREEZING_RAIN_CODES
    THEN <<Alert("severe_weather", "high", "Freezing Rain Warning", "current")>>
    ELSE IF current_weather_code \in SNOW_CODES
    THEN <<Alert("weather_advisory", "medium", "Snow Advisory", "current")>>
    ELSE <<>>

\* a variant that warns at the threshold too
wind_alerts_inclusive(current_wind) ==
    IF current_wind >= HIGH_WIND_THRESHOLD_KMH
    THEN <<Alert("wind_warning", "medium", "High Wind Warning", "current")>>
    ELSE <<>>

\* get_weather_alerts: if current_wind > HIGH_WIND_THRESHOLD_KMH
wind_alerts(current_wind) ==
    IF current_wind > HIGH_WIND_THRESHOLD_KMH
    THEN <<Alert("wind_warning", "medium", "High Wind Warning", "current")>>
    ELSE <<>>

\* a variant that never finds an earlier severe weather alert
any_severe_weather_ignored(alerts) == FALSE

\* any(alert["type"] == "severe_weather" for alert in alerts)
any_severe_weather(alerts) ==
    \E j \in 1..Len(alerts) : alerts[j].type = "severe_weather"

\* the hours the scan visits: range(min(24, len(hourly["time"])))
scan_hours(hourly) == 1..Min(ALERT_SCAN_HOURS, Len(hourly))

\* the hours at which the scan's if holds; alerts does not change before the
\* break, so the scan appends at the first of them and stops
scan_hits(alerts, hourly) ==
    {i \in scan_hours(hourly) :
        hourly[i].weather_code \in SEVERE_WEATHER_CODES /\ ~any_severe_weather(alerts)}

\* a variant that tests the earlier alerts once before the loop and has no
\* break: one alert for every hour at which the test holds
upcoming_alerts_every_hit(alerts, hourly) ==
    LET hits == scan_hits(alerts, hourly)
        nth(k) == CHOOSE h \in hits : Cardinality({g \in hits : g <= h}) = k
    IN  [k \in 1..Cardinality(hits) |->
            Alert("severe_weather", "medium", "Incoming Thunderstorm", hourly[nth(k)].time)]

\* get_weather_alerts: the for loop over the next 24 hours, with its break
upcoming_alerts(alerts, hourly) ==
    IF scan_hits(alerts, hourly) = {}
    THEN <<>>
    ELSE LET i == CHOOSE h \in scan_hits(alerts, hourly) :
                      \A g \in scan_hits(alerts, hourly) : h <= g
         IN  <<Alert("severe_weather", "medium", "Incoming Thunderstorm", hourly[i].time)>>

\* get_weather_alerts: the alerts list, in the order it is appended to
build_alerts(weather_data) ==
    LET first == current_code_alerts(weather_data.current.weather_code)
                     \o wind_alerts(weather_data.current.wind_speed_10m)
    IN  first \o upcoming_alerts(first, weather_data.hourly)

\* get_weather_alerts: result
shape_alerts(location, weather_data) ==
    [location    |-> location,
     alerts      |-> build_alerts(weather_data),
     alert_count |-> Len(build_alerts(weather_data))]

NoResult == [tool |-> "none"]

\* the keys of weather_data each handler subscripts
required_groups(t) ==
    IF t = "get_current_weather" THEN {"current"}
    ELSE IF t = "get_weather_forecast" THEN {"daily"}
    ELSE IF t = "get_hourly_forecast" THEN {"hourly"}
    ELSE {"current", "hourly"}

\* a variant that raises a new exception built from the caught one
reraise_wrapped(e) == [exc |-> "RuntimeError", msg |-> e.msg, arg |-> e.arg]

\* except Exception as e: ...; raise   (the handlers, resolve_location and
\* the clients all end in this clause)
reraise(e) == e

\* what each weather handler returns from the weather data
tool_result(t, location, param, weather_data) ==
    IF t = "get_current_weather"
    THEN [tool |-> t, value |-> shape_current(location, weather_data)]
    ELSE IF t = "get_weather_forecast"
    THEN [tool |-> t, location |-> location, forecast_days |-> shape_daily(weather_data)]
    ELSE IF t = "get_hourly_forecast"
    THEN [tool |-> t, location |-> location,
          hourly_data |-> shape_hourly(param, weather_data)]
    ELSE [tool |-> t, value |-> shape_alerts(location, weather_data)]

\* a weather handler from the return of get_weather_data on: weather_data[...]
\* of an absent key raises KeyError, otherwise the result is returned
tool_outcome(t, location, param, weather_data) ==
    IF required_groups(t) \subseteq weather_data.groups
    THEN Return(tool_result(t, location, param, weather_data))
    ELSE Raise([exc |-> "KeyError", msg |-> "weather_data", arg |-> <<>>])

(***************************************************************************)
(* One tool invocation                                                     *)
(***************************************************************************)
VARIABLES
    pc,             \* where the invocation is
    tool,           \* the handler invoked
    location_name,  \* its location_name argument
    param,          \* its limit, forecast_days or forecast_hours argument
    events,         \* the outbound exchanges made so far, in order
    searchReq,      \* params of the geocoding request
    lastResponse,   \* how the last client.get() ended (kind, status, json_ok)
    found,          \* what search_locations returned or raised
    locations,      \* resolve_location: locations
    message,        \* resolve_location: the message given to ctx.elicit
    elicitResult,   \* resolve_location: result
    location,       \* the handler's location
    weatherReq,     \* params of the weather request
    weather_data,   \* the handler's weather_data
    result,         \* what the handler returned
    raised,         \* the exception as it was first raised
    error           \* what the handler raised

vars ==
    <<pc, tool, location_name, param, events, searchReq, lastResponse, found,
      locations, message, elicitResult, location, weatherReq, weather_data,
      result, raised, error>>

WeatherTools ==
    {"get_current_weather", "get_weather_forecast", "get_hourly_forecast",
     "get_weather_alerts"}

\* arguments the host calls the handlers with
Queries == {<<"a", " ">>, <<"a", "b">>, <<" ", "a", "b">>}

LimitInputs == {0, 1, 5, SEARCH_TOOL_MAX_LIMIT + 1}

ForecastDaysInputs ==
    {0 - 1, 0, 1, MAX_FORECAST_DAYS, MAX_FORECAST_DAYS + 1, 30}

ForecastHoursInputs ==
    {0, 1, 2, ALERT_SCAN_HOURS, MAX_FORECAST_HOURS + 1}

NoSearchParams == [name |-> <<>>, count |-> 0, format |-> ""]

NoResponse == [kind |-> "none", status |-> 0, json_ok |-> FALSE]

\* the part of a client.get() outcome the clients branch on
Outcome(resp) == [kind |-> resp.kind, status |-> resp.status, json_ok |-> resp.json_ok]

NotCalled == [kind |-> "none"]

NoWeather == BodyWithoutGroups

Init ==
    /\ pc = "idle"
    /\ tool = "none"
    /\ location_name = <<>>
    /\ param = 0
    /\ events = <<>>
    /\ searchReq = NoSearchParams
    /\ lastResponse = NoResponse
    /\ found = NotCalled
    /\ locations = <<>>
    /\ message = NoMessage
    /\ elicitResult = NoElicitResult
    /\ location = NoLocation
    /\ weatherReq = NoParams
    /\ weather_data = NoWeather
    /\ result = NoResult
    /\ raised = NoError
    /\ error = NoError

\* search_locations_tool up to its client.get(): the length check, the clamp
search_locations_tool(q, limit) ==
    /\ pc = "idle"
    /\ tool' = "search_locations_tool"
    /\ location_name' = q
    /\ param' = limit
    /\ IF location_name_too_short(q)
       THEN /\ pc' = "failed"
            /\ raised' = ValueError("Location name must be at least 2 characters long.", <<>>)
            /\ error' = ValueError("Location name must be at least 2 characters long.", <<>>)
            /\ UNCHANGED <<events, searchReq>>
       ELSE /\ pc' = "search_wait"
            /\ events' = Append(events, "search")
            /\ searchReq' = search_params(q, clamp_limit(limit))
            /\ UNCHANGED <<raised, error>>
    /\ UNCHANGED <<lastResponse, found, locations, message, elicitResult,
                   location, weatherReq, weather_data, result>>

\* a weather handler up to the client.get() of resolve_location's
\* search_locations(location_name, limit=10)
CallResolve(t, q, p) ==
    /\ pc = "idle"
    /\ tool' = t
    /\ location_name' = q
    /\ param' = p
    /\ pc' = "search_wait"
    /\ events' = Append(events, "search")
    /\ searchReq' = search_params(q, RESOLVER_SEARCH_LIMIT)
    /\ UNCHANGED <<lastResponse, found, locations, message, elicitResult,
                   location, weatherReq, weather_data, result, raised, error>>

get_current_weather(q) == CallResolve("get_current_weather", q, 0)

get_weather_forecast(q, forecast_days) ==
    CallResolve("get_weather_forecast", q, forecast_days)

get_hourly_forecast(q, forecast_hours) ==
    CallResolve("get_hourly_forecast", q, forecast_hours)

get_weather_alerts(q) == CallResolve("get_weather_alerts", q, 0)

\* the geocoding request ends: search_locations returns or raises, and its
\* caller runs to its next request, return or raise
SearchRespond(resp) ==
    /\ pc = "search_wait"
    /\ lastResponse' = Outcome(resp)
    /\ found' = search_locations(resp)
    /\ LET got  == search_locations(resp)
           step == resolve_location_search(location_name, got)
       IN  IF tool = "search_locations_tool"
           THEN /\ pc' = IF got.kind = "raise" THEN "failed" ELSE "done"
                /\ raised' = IF got.kind = "raise" THEN got.error ELSE raised
                /\ error' = IF got.kind = "raise" THEN reraise(got.error) ELSE error
                /\ result' = IF got.kind = "raise"
                             THEN result
                             ELSE [tool |-> tool, locations |-> shape_locations(got.value)]
                /\ UNCHANGED <<locations, message, events, location>>
           ELSE /\ locations' = IF got.kind = "return" THEN got.value ELSE locations
                /\ pc' = IF step.kind = "raise" THEN "failed"
                         ELSE IF step.kind = "return" THEN "resolved"
                         ELSE "elicit_wait"
                /\ raised' = IF step.kind = "raise" THEN step.error ELSE raised
                /\ error' = IF step.kind = "raise" THEN reraise(reraise(step.error)) ELSE error
                /\ location' = IF step.kind = "return" THEN step.value ELSE location
                /\ message' = IF step.kind = "elicit" THEN step.message ELSE message
                /\ events' = IF step.kind = "elicit" THEN Append(events, "elicit") ELSE events
                /\ UNCHANGED result
    /\ UNCHANGED <<tool, location_name, param, searchReq, elicitResult,
                   weatherReq, weather_data>>

\* a variant that asks again after an answer it cannot use
ElicitRespond_reprompt(res) ==
    /\ pc = "elicit_wait"
    /\ elicitResult' = res
    /\ LET step == resolve_location_choice(locations, res)
       IN  /\ pc' = IF step.kind = "raise" THEN "elicit_wait" ELSE "resolved"
           /\ events' = IF step.kind = "raise" THEN Append(events, "elicit") ELSE events
           /\ location' = IF step.kind = "return" THEN step.value ELSE location
    /\ UNCHANGED <<tool, location_name, param, searchReq, lastResponse, found,
                   locations, message, weatherReq, weather_data, result, raised,
                   error>>

\* ctx.elicit returns: resolve_location validates the answer and returns or raises
ElicitRespond(res) ==
    /\ pc = "elicit_wait"
    /\ elicitResult' = res
    /\ LET step == resolve_location_choice(locations, res)
       IN  /\ pc' = IF step.kind = "raise" THEN "failed" ELSE "resolved"
           /\ raised' = IF step.kind = "raise" THEN step.error ELSE raised
           /\ error' = IF step.kind = "raise" THEN reraise(reraise(step.error)) ELSE error
           /\ location' = IF step.kind = "return" THEN step.value ELSE location
    /\ UNCHANGED <<tool, location_name, param, events, searchReq, lastResponse,
                   found, locations, message, weatherReq, weather_data, result>>

\* resolve_location has returned (its locals are gone): the handler builds its
\* weather request and get_weather_data calls client.get()
CallWeather ==
    /\ pc = "resolved"
    /\ pc' = "weather_wait"
    /\ events' = Append(events, "weather")
    /\ weatherReq' = tool_weather_params(tool, location, param)
    /\ found' = NotCalled
    /\ locations' = <<>>
    /\ message' = NoMessage
    /\ elicitResult' = NoElicitResult
    /\ UNCHANGED <<tool, location_name, param, searchReq, lastResponse, location,
                   weather_data, result, raised, error>>

\* the weather request ends: get_weather_data returns or raises, and the
\* handler shapes its result
WeatherRespond(resp) ==
    /\ pc = "weather_wait"
    /\ lastResponse' = Outcome(resp)
    /\ LET got == get_weather_data(resp)
       IN  IF got.kind = "raise"
           THEN /\ pc' = "failed"
                /\ raised' = got.error
                /\ error' = reraise(got.error)
                /\ UNCHANGED <<weather_data, result>>
           ELSE LET out == tool_outcome(tool, location, param, got.value)
                IN  /\ weather_data' = got.value
                    /\ pc' = IF out.kind = "raise" THEN "failed" ELSE "done"
                    /\ raised' = IF out.kind = "raise" THEN out.error ELSE raised
                    /\ error' = IF out.kind = "raise" THEN reraise(out.error) ELSE error
                    /\ result' = IF out.kind = "raise" THEN result ELSE out.value
    /\ UNCHANGED <<tool, location_name, param, events, searchReq, found,
                   locations, message, elicitResult, location, weatherReq>>

Next ==
    \/ \E q \in Queries, limit \in LimitInputs : search_locations_tool(q, limit)
    \/ \E q \in Queries : get_current_weather(q)
    \/ \E q \in Queries, d \in ForecastDaysInputs : get_weather_forecast(q, d)
    \/ \E q \in Queries, h \in ForecastHoursInputs : get_hourly_forecast(q, h)
    \/ \E q \in Queries : get_weather_alerts(q)
    \/ \E resp \in GeoResponses : SearchRespond(resp)
    \/ \E res \in ElicitResults : ElicitRespond(res)
    \/ CallWeather
    \/ \E k \in TransportFaults : WeatherRespond(HttpFault(k))
    \/ \E st \in ErrorStatuses, j \in BOOLEAN : WeatherRespond(HttpResponse(st, j, <<>>))
    \/ WeatherRespond(HttpResponse(200, FALSE, <<>>))
    \/ WeatherRespond(HttpResponse(200, TRUE, BodyWithoutGroups))
    \/ \E code \in IF weatherReq.current THEN CurrentCodes ELSE {0},
          w \in IF weatherReq.current THEN WindSpeeds ELSE {0},
          n \in IF weatherReq.hourly THEN HourlyLengths ELSE {0},
          st \in IF weatherReq.hourly THEN SUBSET StormHours ELSE {{}},
          c \in IF weatherReq.hourly THEN MarkCodes ELSE {0},
          d \in IF weatherReq.daily THEN DailyLengths ELSE {0} :
            WeatherRespond(HttpResponse(200, TRUE, WeatherBody(weatherReq, code, w, n, st, c, d)))
    \/ /\ weatherReq.hourly
       /\ ~weatherReq.current
       /\ WeatherRespond(HttpResponse(200, TRUE,
              WeatherBody(weatherReq, 0, 0, LongHourlyLength, {}, 0, 0)))

Spec == Init /\ [][Next]_vars

(***************************************************************************)
(* Properties                                                              *)
(***************************************************************************)
\* how often an exchange of kind e was made
Count(e) == Cardinality({i \in 1..Len(events) : events[i] = e})

\* the search of a weather handler's resolve_location has returned a list
SearchReturned ==
    tool \in WeatherTools /\ found.kind = "return"

\* loc is candidate c promoted: the same fields, an absent country as ""
Promoted(loc, c) ==
    /\ loc.id = c.id
    /\ loc.name = c.name
    /\ loc.latitude = c.latitude
    /\ loc.longitude = c.longitude
    /\ loc.country = (IF c.country = Missing THEN "" ELSE c.country)

\* C1: when the search of resolve_location returns no candidate, the
\* resolution fails with the no-locations-found error naming the query text,
\* returns no location and never calls ctx.elicit
C1_ZeroCandidatesNotFound ==
    (SearchReturned /\ Len(found.value) = 0)
        => /\ pc = "failed"
           /\ error.exc = "ValueError"
           /\ error.msg = "No locations found"
           /\ error.arg = location_name
           /\ location = NoLocation
           /\ Count("elicit") = 0

C1_Witness ==
    /\ SearchReturned
    /\ Len(found.value) = 0
    /\ pc = "failed"
    /\ location_name = <<"a", "b">>

\* C2: when the search of resolve_location returns exactly one candidate,
\* the resolution returns that candidate promoted and never calls ctx.elicit
C2_SingleCandidateDirect ==
    (SearchReturned /\ Len(found.value) = 1)
        => /\ pc = "resolved"
           /\ Promoted(location, found.value[1])
           /\ error = NoError
           /\ Count("elicit") = 0

C2_Witness ==
    /\ SearchReturned
    /\ Len(found.value) = 1
    /\ pc = "resolved"
    /\ found.value[1].country = Missing
    /\ location.country = ""

\* the number of candidates resolve_location offers for selection
TruncatedCount ==
    IF Len(found.value) <= MAX_LOCATION_ELICITATION_OPTIONS
    THEN Len(found.value)
    ELSE MAX_LOCATION_ELICITATION_OPTIONS

\* ctx.elicit has answered
Answered == SearchReturned /\ elicitResult # NoElicitResult

\* the answer is an accepted selection of one of the offered numbers
ValidSelection ==
    /\ elicitResult.action = "accept"
    /\ elicitResult.has_data
    /\ elicitResult.selected_location_id >= 1
    /\ elicitResult.selected_location_id <= TruncatedCount

\* C3: the message given to ctx.elicit lists exactly the first
\* min(N, MAX_LOCATION_ELICITATION_OPTIONS) candidates of the search result,
\* in search order, numbered from 1, and nothing beyond that prefix; and a
\* search result of N > 1 candidates whose offered candidates all have a
\* country is always put to ctx.elicit, once
C3_OptionsAreDisplayedPrefix ==
    /\ (message # NoMessage)
          => /\ SearchReturned
             /\ Len(found.value) > 1
             /\ message.query = location_name
             /\ Len(message.options) = TruncatedCount
             /\ \A i \in 1..Len(message.options) :
                   /\ message.options[i].number = i
                   /\ message.options[i].name = found.value[i].name
                   /\ message.options[i].country = found.value[i].country
    /\ (/\ SearchReturned
        /\ Len(found.value) > 1
        /\ \A i \in 1..TruncatedCount : found.value[i].country # Missing)
          => /\ message # NoMessage
             /\ Count("elicit") = 1

C3_Witness ==
    /\ pc = "elicit_wait"
    /\ Len(found.value) > MAX_LOCATION_ELICITATION_OPTIONS
    /\ Len(message.options) = MAX_LOCATION_ELICITATION_OPTIONS
    /\ message.options[1].name # found.value[Len(found.value)].name

\* C4: an accepted selection k with 1 <= k <= truncated count makes
\* resolve_location return the k-th offered candidate, and no resolution that
\* went through ctx.elicit returns a candidate beyond the offered prefix
C4_SelectionWithinDisplayed ==
    Answered
        => /\ ValidSelection
                => /\ pc = "resolved"
                   /\ Promoted(location, found.value[elicitResult.selected_location_id])
           /\ pc = "resolved"
                => /\ \E i \in 1..TruncatedCount : Promoted(location, found.value[i])
                   /\ \A i \in (TruncatedCount + 1)..Len(found.value) :
                          location.id # found.value[i].id

C4_Witness ==
    /\ Answered
    /\ pc = "resolved"
    /\ Len(found.value) > MAX_LOCATION_ELICITATION_OPTIONS
    /\ elicitResult.selected_location_id = MAX_LOCATION_ELICITATION_OPTIONS
    /\ location.id = found.value[MAX_LOCATION_ELICITATION_OPTIONS].id

SelectionErrorMessages ==
    {"Location selection was cancelled or invalid.",
     "Invalid location selection. Please choose a number from the list."}

\* C5: a declined or cancelled exchange, an accepted one without data, and an
\* accepted selection outside 1..truncated count all make resolve_location
\* raise a selection error and return no location; declined and cancelled
\* raise the same error
C5_InvalidSelectionFails ==
    (Answered /\ ~ValidSelection)
        => /\ pc = "failed"
           /\ error.exc = "ValueError"
           /\ error.msg \in SelectionErrorMessages
           /\ location = NoLocation
           /\ result = NoResult
           /\ elicitResult.action \in {"decline", "cancel"}
                => error = ValueError("Location selection was cancelled or invalid.", <<>>)

C5_Witness ==
    /\ Answered
    /\ elicitResult.action = "accept"
    /\ elicitResult.has_data
    /\ elicitResult.selected_location_id = 0
    /\ pc = "failed"
    /\ error.msg = "Invalid location selection. Please choose a number from the list."

\* get_weather_forecast has returned
ForecastDone == tool = "get_weather_forecast" /\ pc = "done"

\* forecast_days clamped into 1..MAX_FORECAST_DAYS
ClampedDays ==
    IF param < 1 THEN 1
    ELSE IF param > MAX_FORECAST_DAYS THEN MAX_FORECAST_DAYS
    ELSE param

\* the client.get() ended in a response with status 200 and a JSON body
GoodResponse ==
    lastResponse.kind = "response" /\ lastResponse.status = 200 /\ lastResponse.json_ok

\* C6 as stated: the forecast returned has exactly
\* max(1, min(forecast_days, MAX_FORECAST_DAYS)) daily entries
C6_ExactlyClampedEntries ==
    ForecastDone => Len(result.forecast_days) = ClampedDays

\* C6 as amended: get_weather_forecast never rejects a forecast_days value
\* (it fails only when the weather source gives no usable daily data);
\* the day count it requests from the weather source is
\* max(1, min(forecast_days, MAX_FORECAST_DAYS)), and the forecast it returns
\* has one entry per day of the source's answer, in order: exactly the
\* clamped count when the source answers with as many days as requested
C6_ClampedRequestOneEntryPerDay ==
    (tool = "get_weather_forecast" /\ Count("weather") > 0)
        => /\ weatherReq.daily
           /\ weatherReq.forecast_days = ClampedDays
           /\ pc = "failed" => (~GoodResponse \/ "daily" \notin weather_data.groups)
           /\ pc = "done"
                => /\ Len(result.forecast_days) = Len(weather_data.daily)
                   /\ \A i \in 1..Len(result.forecast_days) :
                          result.forecast_days[i].date = weather_data.daily[i].time
                   /\ Len(weather_data.daily) = weatherReq.forecast_days
                          => Len(result.forecast_days) = ClampedDays

C6_Witness ==
    /\ ForecastDone
    /\ param = 30
    /\ weatherReq.forecast_days = MAX_FORECAST_DAYS
    /\ Len(result.forecast_days) = MAX_FORECAST_DAYS

\* get_weather_alerts has returned
AlertsDone == tool = "get_weather_alerts" /\ pc = "done"

\* the positions of the alerts with a title
Titled(title) ==
    {i \in 1..Len(result.value.alerts) : result.value.alerts[i].title = title}

\* the positions of the alerts of a type
Typed(type) ==
    {i \in 1..Len(result.value.alerts) : result.value.alerts[i].type = type}

\* the hours among the first 24 samples that have a thunderstorm code
StormyHours ==
    {i \in 1..Len(weather_data.hourly) :
        i <= ALERT_SCAN_HOURS /\ weather_data.hourly[i].weather_code \in {95, 96, 99}}

\* C7: when the current weather code is a thunderstorm code, the alerts have
\* exactly one "Thunderstorm Warning", of high severity, and no "Incoming
\* Thunderstorm", whatever the hourly samples are
C7_CurrentStormSuppressesUpcoming ==
    (AlertsDone /\ weather_data.current.weather_code \in {95, 96, 99})
        => /\ Cardinality(Titled("Thunderstorm Warning")) = 1
           /\ \A i \in Titled("Thunderstorm Warning") :
                  /\ result.value.alerts[i].severity = "high"
                  /\ result.value.alerts[i].type = "severe_weather"
           /\ Titled("Incoming Thunderstorm") = {}

C7_Witness ==
    /\ AlertsDone
    /\ weather_data.current.weather_code = 95
    /\ StormyHours # {}
    /\ Cardinality(Titled("Thunderstorm Warning")) = 1

\* C8: the alerts have a wind warning exactly when the current wind speed is
\* strictly above the threshold, whatever the current and hourly codes are
C8_WindWarningIffAboveThreshold ==
    AlertsDone
        => Cardinality(Typed("wind_warning")) =
               (IF weather_data.current.wind_speed_10m > HIGH_WIND_THRESHOLD_KMH
                THEN 1 ELSE 0)

C8_Witness ==
    /\ AlertsDone
    /\ weather_data.current.wind_speed_10m > HIGH_WIND_THRESHOLD_KMH
    /\ weather_data.current.weather_code = 95
    /\ Cardinality(Typed("wind_warning")) = 1
    /\ Len(result.value.alerts) = 2

\* C9 as stated: when one of the first 24 hourly samples has a thunderstorm
\* code and the current code is not a thunderstorm code, the alerts have
\* exactly one "Incoming Thunderstorm", of medium severity, with the time of
\* the first such hour
C9_UpcomingStormAlert ==
    (AlertsDone /\ StormyHours # {} /\ weather_data.current.weather_code \notin {95, 96, 99})
        => /\ Cardinality(Titled("Incoming Thunderstorm")) = 1
           /\ \A i \in Titled("Incoming Thunderstorm") :
                  /\ result.value.alerts[i].severity = "medium"
                  /\ \E h \in StormyHours :
                        /\ \A g \in StormyHours : h <= g
                        /\ result.value.alerts[i].time = weather_data.hourly[h].time

\* the same with a current freezing rain code excluded as well (what the code does)
C9_UnlessFreezingRain ==
    (AlertsDone /\ weather_data.current.weather_code \in {66, 67}) \/ C9_UpcomingStormAlert

\* a client.get() ended in a transport fault or a status other than 200
UpstreamFailure ==
    \/ lastResponse.kind \in {"TimeoutException", "ConnectError", "RequestError"}
    \/ lastResponse.kind = "response" /\ lastResponse.status # 200

UpstreamErrorMessages ==
    {"Request timeout - the geocoding service may be temporarily unavailable",
     "Failed to connect to geocoding service",
     "Network error",
     "Geocoding API error",
     "Request timeout - the weather service may be temporarily unavailable",
     "Failed to connect to weather service",
     "Weather API error"}

\* C10: a call of search_locations or get_weather_data makes one request and
\* never a second one, and every transport fault and every status other than
\* 200 ends the invocation with a ValueError of the upstream kind and without
\* a result
C10_OneRequestUniformError ==
    /\ Count("search") <= 1
    /\ Count("weather") <= 1
    /\ (pc = "search_wait" \/ found # NotCalled) => Count("search") = 1
    /\ (pc = "weather_wait" \/ weather_data # NoWeather) => Count("weather") = 1
    /\ UpstreamFailure
          => /\ pc = "failed"
             /\ error.exc = "ValueError"
             /\ error.msg \in UpstreamErrorMessages
             /\ result = NoResult

C10_Witness ==
    /\ lastResponse.kind = "TimeoutException"
    /\ Count("search") = 1
    /\ Count("weather") = 0
    /\ pc = "failed"
    /\ tool = "get_current_weather"

\* the location inside the result of a weather handler
ResultLocation ==
    IF tool \in {"get_current_weather", "get_weather_alerts"}
    THEN result.value.location
    ELSE result.location

\* C11: an invocation that has ended has either returned a result of its
\* handler (for a weather handler, with the resolved location in it) and
\* raised nothing, or raised an error and returned nothing; the error that
\* leaves the handler is the one first raised, unchanged; nothing is returned
\* before the end; and a weather request is made only with a resolved location
C11_ReturnsOrRaisesUnchanged ==
    /\ pc = "done"
          => /\ result # NoResult
             /\ result.tool = tool
             /\ tool \in WeatherTools => ResultLocation = location
             /\ error = NoError
             /\ raised = NoError
    /\ pc = "failed"
          => /\ result = NoResult
             /\ error # NoError
             /\ error = raised
    /\ pc \notin {"done", "failed"}
          => /\ result = NoResult
             /\ error = NoError
    /\ (pc = "failed" /\ location = NoLocation) => Count("weather") = 0
    /\ Count("weather") > 0 => location # NoLocation

C11_Witness ==
    /\ pc = "failed"
    /\ tool = "get_weather_alerts"
    /\ Count("weather") = 1
    /\ raised.exc = "KeyError"
    /\ error = raised
    /\ result = NoResult

\* the query of the invocation has fewer than two characters besides the
\* blanks around it
ShortQuery ==
    tool # "none" /\ Len(Strip(location_name)) < 2

\* C12 as stated: every handler rejects a query shorter than the minimum
\* length before any search request is made
C12_EveryHandlerValidates ==
    ShortQuery => (pc = "failed" /\ Count("search") = 0)

\* C12 as amended: only search_locations_tool checks the length: it rejects a
\* query whose stripped text is shorter than 2 characters before any search
\* request; the four weather handlers pass every query, short or not, to
\* resolve_location, which makes the search request with it
C12_OnlySearchToolValidates ==
    /\ (tool = "search_locations_tool" /\ ShortQuery)
          => /\ pc = "failed"
             /\ Count("search") = 0
             /\ lastResponse = NoResponse
             /\ error.exc = "ValueError"
             /\ error.msg = "Location name must be at least 2 characters long."
    /\ (tool = "search_locations_tool" /\ ~ShortQuery)
          => /\ Count("search") = 1
             /\ searchReq.name = location_name
    /\ tool \in WeatherTools
          => /\ Count("search") = 1
             /\ searchReq.name = location_name

C12_Witness ==
    /\ tool = "search_locations_tool"
    /\ location_name = <<"a", " ">>
    /\ pc = "failed"
    /\ Count("search") = 0

\* the orders in which a weather handler may have made its exchanges
EventOrders ==
    {<<"search">>,
     <<"search", "elicit">>,
     <<"search", "weather">>,
     <<"search", "elicit", "weather">>}

\* C13: a weather handler makes its exchanges in the order search, then at
\* most one ctx.elicit, then at most one weather request, none of them twice;
\* ctx.elicit is called only after the search has returned a list, and the
\* weather request is made only after resolve_location has returned a location
C13_SearchThenElicitThenWeather ==
    tool \in WeatherTools
        => /\ events \in EventOrders
           /\ pc = "search_wait" => events = <<"search">>
           /\ (Count("elicit") = 1 /\ Count("weather") = 0)
                 => /\ found.kind = "return"
                    /\ Len(found.value) > 1
                    /\ pc \in {"elicit_wait", "resolved", "failed"}
           /\ Count("weather") = 1
                 => /\ location # NoLocation
                    /\ pc \in {"weather_wait", "done", "failed"}
           /\ pc = "resolved" => (location # NoLocation /\ Count("weather") = 0)

C13_Witness ==
    /\ tool = "get_weather_alerts"
    /\ events = <<"search", "elicit", "weather">>
    /\ pc = "done"

(***************************************************************************)
(* The hourly forecast                                                     *)
(***************************************************************************)
HourlyDone == tool = "get_hourly_forecast" /\ pc = "done"

\* forecast_hours clamped into 1..MAX_FORECAST_HOURS
ClampedHours ==
    IF param < 1 THEN 1
    ELSE IF param > MAX_FORECAST_HOURS THEN MAX_FORECAST_HOURS
    ELSE param

\* C15: get_hourly_forecast rejects no forecast_hours value (with a location
\* and a weather body that has the hourly group it returns, whatever the
\* value), and its hourly_data has exactly min(clamped hours, A) entries, the
\* first ones of the A upstream samples in order, never more than the clamped
\* hours
C15_HourlyClampedPrefix ==
    /\ (/\ tool = "get_hourly_forecast"
        /\ Count("weather") = 1
        /\ pc # "weather_wait"
        /\ GoodResponse
        /\ "hourly" \in weather_data.groups)
          => pc = "done"
    /\ HourlyDone
          => /\ Len(result.hourly_data) =
                    (IF ClampedHours <= Len(weather_data.hourly)
                     THEN ClampedHours
                     ELSE Len(weather_data.hourly))
             /\ Len(result.hourly_data) <= ClampedHours
             /\ \A i \in 1..Len(result.hourly_data) :
                   /\ result.hourly_data[i].time = weather_data.hourly[i].time
                   /\ result.hourly_data[i].weather_code
                          = weather_data.hourly[i].weather_code

\* more hours asked than the maximum, and more samples sent than the maximum
C15_Witness ==
    /\ HourlyDone
    /\ param > MAX_FORECAST_HOURS
    /\ Len(weather_data.hourly) > MAX_FORECAST_HOURS
    /\ Len(result.hourly_data) = MAX_FORECAST_HOURS

(***************************************************************************)
(* The alert list as a whole                                               *)
(***************************************************************************)
\* the titles of the alerts made from the current weather code
CurrentCodeTitles == {"Thunderstorm Warning", "Freezing Rain Warning", "Snow Advisory"}

\* the positions of the alerts made from the current weather code
FromCurrentCode ==
    {i \in 1..Len(result.value.alerts) : result.value.alerts[i].title \in CurrentCodeTitles}

\* C16: in every result of get_weather_alerts, alert_count is the number of
\* entries of alerts, and alerts has at most one entry of type
\* "severe_weather", at most one made from the current weather code, at most
\* one wind warning, and at most three entries in all
C16_AlertListBounds ==
    AlertsDone
        => /\ result.value.alert_count = Len(result.value.alerts)
           /\ Cardinality(Typed("severe_weather")) <= 1
           /\ Cardinality(FromCurrentCode) <= 1
           /\ Cardinality(Typed("wind_warning")) <= 1
           /\ Len(result.value.alerts) <= 3

\* snow now, high wind, and thunderstorm codes at two of the next 24 hours:
\* three alerts
C16_Witness ==
    /\ AlertsDone
    /\ weather_data.current.weather_code \in SNOW_CODES
    /\ Cardinality(StormyHours) = 2
    /\ result.value.alert_count = 3
    /\ Titled("Snow Advisory") # {}
    /\ Titled("High Wind Warning") # {}
    /\ Titled("Incoming Thunderstorm") # {}

(***************************************************************************)
(* Two invocations of resolve_location at once. Each variable of the       *)
(* resolver holds one value per invocation (pc, location_name, found,      *)
(* elicitResult, location, raised, error) or per activation frame          *)
(* (locations, message); events is the one order in which the exchanges of *)
(* both were made. The event loop runs one invocation at a time from one   *)
(* await to the next, in any order.                                        *)
(***************************************************************************)
Invocations == {1, 2}

\* a variant in which the locals are one module-level object
frame_shared(i) == 1

\* the activation frame that holds the locals of invocation i: every call of
\* the coroutine has its own
frame(i) == i

PairQueries == {<<"a", "b">>, <<" ", "a", "b">>}

PairCounts == {0, 1, 2, MaxAvail}

\* the answers of the geocoding source in the two-invocation runs
PairGeoResponses ==
    {HttpFault("TimeoutException")}
        \cup {HttpResponse(200, TRUE, [has_results |-> TRUE, results |-> GeoResults(n, rev, 0)]) :
                 n \in PairCounts, rev \in BOOLEAN}

PairInit ==
    /\ pc = [i \in Invocations |-> "idle"]
    /\ location_name = [i \in Invocations |-> <<>>]
    /\ found = [i \in Invocations |-> NotCalled]
    /\ elicitResult = [i \in Invocations |-> NoElicitResult]
    /\ location = [i \in Invocations |-> NoLocation]
    /\ raised = [i \in Invocations |-> NoError]
    /\ error = [i \in Invocations |-> NoError]
    /\ locations = [f \in Invocations |-> <<>>]
    /\ message = [f \in Invocations |-> NoMessage]
    /\ events = <<>>
    /\ tool = "resolve_location"
    /\ param = 0
    /\ searchReq = NoSearchParams
    /\ lastResponse = NoResponse
    /\ weatherReq = NoParams
    /\ weather_data = NoWeather
    /\ result = NoResult

\* invocation i: resolve_location(q, ctx) up to the client.get() of its search
PairCall(i, q) ==
    /\ pc[i] = "idle"
    /\ pc' = [pc EXCEPT ![i] = "search_wait"]
    /\ location_name' = [location_name EXCEPT ![i] = q]
    /\ events' = Append(events, <<i, "search">>)
    /\ UNCHANGED <<tool, param, searchReq, lastResponse, found, locations, message,
                   elicitResult, location, weatherReq, weather_data, result,
                   raised, error>>

\* invocation i: its search ends and it runs to ctx.elicit, return or raise
PairSearchRespond(i, resp) ==
    /\ pc[i] = "search_wait"
    /\ found' = [found EXCEPT ![i] = search_locations(resp)]
    /\ LET got  == search_locations(resp)
           step == resolve_location_search(location_name[i], got)
       IN  /\ locations' = [locations EXCEPT
                               ![frame(i)] = IF got.kind = "return" THEN got.value ELSE @]
           /\ message' = [message EXCEPT
                             ![frame(i)] = IF step.kind = "elicit" THEN step.message ELSE @]
           /\ pc' = [pc EXCEPT ![i] = IF step.kind = "raise" THEN "failed"
                                      ELSE IF step.kind = "return" THEN "resolved"
                                      ELSE "elicit_wait"]
           /\ raised' = [raised EXCEPT ![i] = IF step.kind = "raise" THEN step.error ELSE @]
           /\ error' = [error EXCEPT
                           ![i] = IF step.kind = "raise" THEN reraise(step.error) ELSE @]
           /\ location' = [location EXCEPT
                              ![i] = IF step.kind = "return" THEN step.value ELSE @]
           /\ events' = IF step.kind = "elicit"
                        THEN Append(events, <<i, "elicit">>)
                        ELSE events
    /\ UNCHANGED <<tool, location_name, param, searchReq, lastResponse,
                   elicitResult, weatherReq, weather_data, result>>

\* invocation i: its ctx.elicit returns
PairElicitRespond(i, res) ==
    /\ pc[i] = "elicit_wait"
    /\ elicitResult' = [elicitResult EXCEPT ![i] = res]
    /\ LET step == resolve_location_choice(locations[frame(i)], res)
       IN  /\ pc' = [pc EXCEPT ![i] = IF step.kind = "raise" THEN "failed" ELSE "resolved"]
           /\ raised' = [raised EXCEPT ![i] = IF step.kind = "raise" THEN step.error ELSE @]
           /\ error' = [error EXCEPT
                           ![i] = IF step.kind = "raise" THEN reraise(step.error) ELSE @]
           /\ location' = [location EXCEPT
                              ![i] = IF step.kind = "return" THEN step.value ELSE @]
    /\ UNCHANGED <<tool, location_name, param, events, searchReq, lastResponse,
                   found, locations, message, weatherReq, weather_data, result>>

PairNext ==
    \/ \E i \in Invocations, q \in PairQueries : PairCall(i, q)
    \/ \E i \in Invocations, resp \in PairGeoResponses : PairSearchRespond(i, resp)
    \/ \E i \in Invocations, res \in ElicitResults : PairElicitRespond(i, res)

SpecPair == PairInit /\ [][PairNext]_vars

\* the number of candidates offered to invocation i
OwnOffered(i) == Min(Len(found[i].value), MAX_LOCATION_ELICITATION_OPTIONS)

\* invocation i was answered with an accepted number of its own offer
OwnValidSelection(i) ==
    /\ elicitResult[i].action = "accept"
    /\ elicitResult[i].has_data
    /\ elicitResult[i].selected_location_id \in 1..OwnOffered(i)

\* what invocation i produces when it runs alone on its own query, its own
\* search outcome and its own answer (C1, C2, C4, C5 and C10 for one
\* invocation)
AloneOutcome(i) ==
    /\ found[i].kind = "raise"
          => /\ pc[i] = "failed"
             /\ error[i] = found[i].error
    /\ (found[i].kind = "return" /\ Len(found[i].value) = 0)
          => /\ pc[i] = "failed"
             /\ error[i].msg = "No locations found"
             /\ error[i].arg = location_name[i]
    /\ (found[i].kind = "return" /\ Len(found[i].value) = 1)
          => /\ pc[i] = "resolved"
             /\ Promoted(location[i], found[i].value[1])
    /\ (found[i].kind = "return" /\ Len(found[i].value) > 1)
          => /\ pc[i] \in {"elicit_wait", "resolved", "failed"}
             /\ pc[i] = "elicit_wait" => elicitResult[i] = NoElicitResult
             /\ (pc[i] # "elicit_wait" /\ OwnValidSelection(i))
                   => /\ pc[i] = "resolved"
                      /\ Promoted(location[i],
                                  found[i].value[elicitResult[i].selected_location_id])
             /\ (pc[i] # "elicit_wait" /\ ~OwnValidSelection(i))
                   => /\ pc[i] = "failed"
                      /\ error[i].msg \in SelectionErrorMessages
    /\ pc[i] = "failed" => location[i] = NoLocation
    /\ pc[i] = "resolved" => error[i] = NoError

\* the offer that is pending for invocation i is made of its own candidates
OwnOffer(i) ==
    pc[i] = "elicit_wait"
        => /\ message[i] # NoMessage
           /\ message[i].query = location_name[i]
           /\ Len(message[i].options) = OwnOffered(i)
           /\ \A k \in 1..Len(message[i].options) :
                 /\ message[i].options[k].number = k
                 /\ message[i].options[k].name = found[i].value[k].name

\* C14: with two invocations of resolve_location in flight at once, suspended
\* at their awaits and resumed in any order, every invocation that has got
\* its search outcome offers, returns or raises exactly what it would alone
\* on its own query, its own candidates and its own answer
C14_InvocationsIndependent ==
    \A i \in Invocations :
        found[i] # NotCalled => (AloneOutcome(i) /\ OwnOffer(i))

\* 1 was suspended in ctx.elicit first, 2 was answered first, on another list
C14_Witness ==
    /\ events = <<<<1, "search">>, <<2, "search">>, <<1, "elicit">>, <<2, "elicit">>>>
    /\ pc[1] = "elicit_wait"
    /\ pc[2] = "resolved"
    /\ Len(found[1].value) = MaxAvail
    /\ Len(found[2].value) = 2
    /\ found[1].value[1].id # found[2].value[1].id
    /\ elicitResult[2].selected_location_id = 2

====
